---- MODULE Spec2Model ----
(***************************************************************************)
(* Model of src/stock.py: a Streamlit dashboard script.  Every rerun of    *)
(* the script reads the sidebar inputs, calls load_data (memoised by       *)
(* st.cache_data with ttl = 3600 s on the arguments ticker, start, end),   *)
(* flattens the column index and renders either the chart and statistics   *)
(* or the "no chart" warning.                                              *)
(*                                                                         *)
(* Numbers.  Close prices are integers.  A pandas cell is a record         *)
(*   [k |-> "nan" | "inf" | "num", n |-> numerator, d |-> denominator];    *)
(* rolling means and the RSI are exact rationals n/d, the EMA (whose exact *)
(* denominators grow as 21^t) is kept in fixed point with Scale units.     *)
(***************************************************************************)
EXTENDS Integers, Sequences, FiniteSets, TLC

\* ---------------------------------------------------------------- constants
TTL == 3600
SMA_WINDOW == 50
EMA_SPAN == 20
RSI_PERIOD == 14

\* ------------------------------------------------------------------- bounds
MaxRows == 100
MaxTicks == 3
BasePrice == 10
Scale == 1000
WilderScale == 1000000
Tolerance == 1

TickSeconds == TTL \div 2
MaxClock == MaxTicks * TickSeconds

\* A ticker the provider knows and one it does not.
Tickers == {"AAPL", "XXXX"}
StartDates == {1}
EndDates == {2}
Keys == Tickers \X StartDates \X EndDates

BaseCols == {"Open", "High", "Low", "Close", "Volume"}

\* -------------------------------------------------------------------- cells
NaN == [k |-> "nan", n |-> 0, d |-> 1]
Inf == [k |-> "inf", n |-> 0, d |-> 1]
Num(a, b) == [k |-> "num", n |-> a, d |-> b]

IsNaN(v) == v.k = "nan"

\* ------------------------------------------------------------------- frames
\* pd.DataFrame(): no rows, no columns, a flat column index.
EmptyFrame ==
  [nlevels |-> 1, cols |-> {}, n |-> 0, Close |-> << >>,
   SMA_50 |-> << >>, EMA_20 |-> << >>, RSI |-> << >>]

\* data.empty / df.empty: true when either axis has length 0.
IsEmpty(d) == d.n = 0 \/ d.cols = {}

\* A frame as yf.download returns it: the OHLCV columns over the rows of
\* `close`, under a flat (nl = 1) or a (field, ticker) two-level (nl = 2)
\* column index.
ProviderFrame(close, nl) ==
  [nlevels |-> nl, cols |-> BaseCols, n |-> Len(close), Close |-> close,
   SMA_50 |-> << >>, EMA_20 |-> << >>, RSI |-> << >>]

\* A malformed, non-empty provider frame that has no Close column.
NoCloseFrame ==
  [nlevels |-> 1, cols |-> BaseCols \ {"Close"}, n |-> 1, Close |-> << >>,
   SMA_50 |-> << >>, EMA_20 |-> << >>, RSI |-> << >>]

\* The provider's answer for a range without data: the columns, no rows.
NoRowsFrame == ProviderFrame(<< >>, 1)

\* --------------------------------------------------------------- indicators
\* Series.rolling(window = w).mean() over the integer series x, as pandas'
\* sliding window computes it: add the entering value, remove the leaving
\* one, and report sum / nobs once nobs reaches min_periods = w.
RECURSIVE RollAcc(_, _, _)
RollAcc(x, w, acc) ==
  IF Len(acc.out) >= Len(x) THEN acc.out
  ELSE LET i     == Len(acc.out) + 1
           added == acc.sum + x[i]
           s     == IF i > w THEN added - x[i - w] ELSE added
           nobs  == IF i > w THEN w ELSE i
           v     == IF nobs >= w THEN Num(s, nobs) ELSE NaN
       IN  RollAcc(x, w, [sum |-> s, out |-> Append(acc.out, v)])

\* The same with the leaving value taken one row late (an off-by-one window).
RECURSIVE RollAccLate(_, _, _)
RollAccLate(x, w, acc) ==
  IF Len(acc.out) >= Len(x) THEN acc.out
  ELSE LET i     == Len(acc.out) + 1
           added == acc.sum + x[i]
           s     == IF i > w + 1 THEN added - x[i - w - 1] ELSE added
           nobs  == IF i > w THEN w ELSE i
           v     == IF nobs >= w THEN Num(s, nobs) ELSE NaN
       IN  RollAccLate(x, w, [sum |-> s, out |-> Append(acc.out, v)])

RollingMeanLate(x, w) == RollAccLate(x, w, [sum |-> 0, out |-> << >>])

RollingMean(x, w) == RollAcc(x, w, [sum |-> 0, out |-> << >>])

\* Series.ewm(span = span, adjust = False).mean(): alpha = 2 / (span + 1),
\* y[1] = x[1], y[t] = alpha x[t] + (1 - alpha) y[t-1]; in Scale units.
RECURSIVE EwmAcc(_, _, _)
EwmAcc(x, span, acc) ==
  IF Len(acc.out) >= Len(x) THEN acc.out
  ELSE LET i == Len(acc.out) + 1
           y == IF i = 1 THEN x[1] * Scale
                ELSE (2 * x[i] * Scale + (span - 1) * acc.prev) \div (span + 1)
       IN  EwmAcc(x, span, [prev |-> y, out |-> Append(acc.out, Num(y, Scale))])

Ewm(x, span) == EwmAcc(x, span, [prev |-> 0, out |-> << >>])

\* delta = Close.diff(): undefined at the first row.
Diff(x) == [i \in 1..Len(x) |-> IF i = 1 THEN NaN ELSE Num(x[i] - x[i - 1], 1)]

\* delta.where(delta > 0, 0): a NaN delta fails the test and becomes 0.
Gain(x) ==
  LET delta == Diff(x)
  IN  [i \in 1..Len(x) |->
         IF delta[i].k = "num" /\ delta[i].n > 0 THEN delta[i].n ELSE 0]

\* -delta.where(delta < 0, 0)
Loss(x) ==
  LET delta == Diff(x)
  IN  [i \in 1..Len(x) |->
         IF delta[i].k = "num" /\ delta[i].n < 0 THEN -delta[i].n ELSE 0]

\* gain / loss on float64 cells: x/0 is inf, 0/0 is NaN, nothing raises.
FloatDiv(g, l) ==
  IF g.k = "nan" \/ l.k = "nan" THEN NaN
  ELSE IF l.n = 0 THEN (IF g.n = 0 THEN NaN ELSE Inf)
  ELSE Num(g.n * l.d, g.d * l.n)

\* 100 - (100 / (1 + rs)); with rs = a/b, a >= 0, b > 0 this is 100a/(a+b),
\* and 100 / (1 + inf) = 0.
RsiOf(rs) ==
  IF rs.k = "nan" THEN NaN
  ELSE IF rs.k = "inf" THEN Num(100, 1)
  ELSE Num(100 * rs.n, rs.n + rs.d)

RsiColumn(x) ==
  LET gain == RollingMean(Gain(x), RSI_PERIOD)
      loss == RollingMean(Loss(x), RSI_PERIOD)
  IN  [i \in 1..Len(x) |-> RsiOf(FloatDiv(gain[i], loss[i]))]

\* ------------------------------------------------------------ provider data
\* The Close series the provider may deliver: six shapes of n rows that
\* start from (or end at) the price `base`.
SeriesOf(shape, n, base) ==
  [i \in 1..n |->
     CASE shape = "flat"   -> base
       [] shape = "up"     -> base + i - 1
       [] shape = "down"   -> base + n - i
       [] shape = "zigzag" -> base + (i \div 2) + (IF i % 2 = 1 THEN 2 ELSE 0)
       [] shape = "spike"  -> IF i = 1 THEN base ELSE base + 1
       [] OTHER            -> IF 2 * i <= n THEN base + i ELSE base + n - i]

Shapes == {"flat", "up", "down", "zigzag", "spike", "peak"}
Lengths ==
  {1, 2, RSI_PERIOD, RSI_PERIOD + 2, 2 * RSI_PERIOD + 2,
   SMA_WINDOW - 1, SMA_WINDOW, MaxRows}
Bases == {0, BasePrice}

AllSeries == {SeriesOf(sh, n, b) : sh \in Shapes, n \in Lengths, b \in Bases}
FewSeries == {SeriesOf("zigzag", RSI_PERIOD + 2, BasePrice)}

\* What one yf.download call for ticker t can do: raise, or return a frame
\* (for the unknown ticker: raise, or return no rows).
Outcomes(t, series, levels) ==
  {[kind |-> "raise", frame |-> EmptyFrame],
   [kind |-> "frame", frame |-> NoRowsFrame]}
  \cup (IF t = "XXXX" THEN {}
        ELSE {[kind |-> "frame", frame |-> NoCloseFrame]}
             \cup {[kind |-> "frame", frame |-> ProviderFrame(c, nl)] :
                     c \in series, nl \in levels})

\* ---------------------------------------------------------------- load_data
\* The body of the try block: [exc |-> "none", or where an exception was
\* raised inside it, ret |-> the value it returns otherwise].  data['Close']
\* raises KeyError when the frame has no Close column.
TryBody(out, sma, ema, rsi) ==
  IF out.kind = "raise" THEN [exc |-> "download", ret |-> EmptyFrame]
  ELSE LET data == out.frame IN
    IF ~IsEmpty(data)
    THEN IF (sma \/ ema \/ rsi) /\ "Close" \notin data.cols
         THEN [exc |-> "indicator", ret |-> EmptyFrame]
         ELSE [exc |-> "none",
               ret |-> [data EXCEPT
                  !.cols   = @ \cup (IF sma THEN {"SMA_50"} ELSE {})
                               \cup (IF ema THEN {"EMA_20"} ELSE {})
                               \cup (IF rsi THEN {"RSI"} ELSE {}),
                  !.SMA_50 = IF sma THEN RollingMean(data.Close, SMA_WINDOW) ELSE @,
                  !.EMA_20 = IF ema THEN Ewm(data.Close, EMA_SPAN) ELSE @,
                  !.RSI    = IF rsi THEN RsiColumn(data.Close) ELSE @]]
    ELSE [exc |-> "none", ret |-> EmptyFrame]

\* load_data without its except clause: the exception reaches the caller.
LoadDataNoExcept(out, sma, ema, rsi) ==
  LET body == TryBody(out, sma, ema, rsi)
  IN  [ret |-> body.ret, msgs |-> 0, failed |-> body.exc,
       raised |-> body.exc # "none"]

\* One execution of load_data's body: [ret |-> the frame returned, msgs |->
\* the st.error elements emitted, failed |-> "none" or where the try block
\* raised, raised |-> an exception left the function].
load_data(out, sma, ema, rsi) ==
  LET body == TryBody(out, sma, ema, rsi)
  IN  IF body.exc # "none"
      THEN [ret |-> EmptyFrame, msgs |-> 1, failed |-> body.exc, raised |-> FALSE]
      ELSE [ret |-> body.ret, msgs |-> 0, failed |-> "none", raised |-> FALSE]

\* -------------------------------------------------------------------- cache
NoEntry == [present |-> FALSE, value |-> EmptyFrame, time |-> 0, msgs |-> 0]

\* An entry that never expires.
FreshForever(e, now) == TRUE

\* st.cache_data(ttl = 3600): an entry is served while its age is below ttl.
Fresh(e, now) == now - e.time < TTL

\* ------------------------------------------------------------------- script
\* df.columns = df.columns.get_level_values(0)
Flatten(d) == [d EXCEPT !.nlevels = 1]

NoStats ==
  [computed |-> FALSE, latest_close |-> 0, previous_close |-> 0, change |-> NaN]

\* The percentage change without the zero test: Python raises
\* ZeroDivisionError on a float division by 0.
PctChangeUnguarded(latest, previous) ==
  IF previous = 0 THEN [raised |-> TRUE, change |-> NaN]
  ELSE [raised |-> FALSE, change |-> Num((latest - previous) * 100, previous)]

\* Lines 77-80.
PctChange(latest, previous) ==
  IF previous # 0
  THEN [raised |-> FALSE, change |-> Num((latest - previous) * 100, previous)]
  ELSE [raised |-> FALSE, change |-> Num(0, 1)]

\* Lines 73-82: df['Close'] raises KeyError without a Close column and
\* .iloc[-1] raises IndexError without rows.
Summarize(d) ==
  IF "Close" \notin d.cols \/ d.n = 0
  THEN [raised |-> TRUE, stats |-> NoStats]
  ELSE LET latest   == d.Close[d.n]
           previous == IF d.n > 1 THEN d.Close[d.n - 1] ELSE latest
           pct      == PctChange(latest, previous)
       IN  [raised |-> pct.raised,
            stats  |-> IF pct.raised THEN NoStats
                       ELSE [computed |-> TRUE, latest_close |-> latest,
                             previous_close |-> previous, change |-> pct.change]]

\* The display branch taken whatever the frame holds.
ShowsChartAlways(d) == TRUE

\* Line 65: if not df.empty
ShowsChart(d) == ~IsEmpty(d)

\* ------------------------------------------------------------------- state
VARIABLES
  clock,       \* seconds since the process started
  cache,       \* st.cache_data's store of load_data: key -> entry
  ticker, start_date, end_date,   \* the sidebar inputs of the latest rerun
  show_sma, show_ema, show_rsi,   \* the indicator checkboxes of that rerun
  df,          \* the frame after the flatten step
  ui,          \* "init", "chart", "warning" or "exception"
  errors,      \* st.error elements shown by the latest rerun
  stats,       \* the statistics computed by the latest rerun
  call         \* what the latest load_data call did (observation only)

vars ==
  <<clock, cache, ticker, start_date, end_date, show_sma, show_ema, show_rsi,
    df, ui, errors, stats, call>>

NoCall ==
  [made |-> FALSE, had |-> FALSE, age |-> 0, prior_msgs |-> 0,
   fetched |-> FALSE, rows |-> -1, failed |-> "none", raised |-> FALSE]

Init ==
  /\ clock = 0
  /\ cache = [k \in Keys |-> NoEntry]
  /\ ticker = "AAPL" /\ start_date = 1 /\ end_date = 2
  /\ show_sma = FALSE /\ show_ema = FALSE /\ show_rsi = FALSE
  /\ df = EmptyFrame
  /\ ui = "init"
  /\ errors = 0
  /\ stats = NoStats
  /\ call = NoCall

\* Time passes between two reruns.
Tick ==
  /\ clock + TickSeconds <= MaxClock
  /\ clock' = clock + TickSeconds
  /\ UNCHANGED <<cache, ticker, start_date, end_date, show_sma, show_ema,
                 show_rsi, df, ui, errors, stats, call>>

\* st.cache_data's lookup for the call load_data(t, s, e).
Hit(t, s, e) == cache[<<t, s, e>>].present /\ Fresh(cache[<<t, s, e>>], clock)

\* One rerun of the script with the sidebar inputs (t, s, e, sma, ema, rsi),
\* lines 24-146; `res` is what the load_data call of line 59 produced, from
\* the cache (hit) or from its body, and `rows` the number of rows
\* yf.download returned to that body (-1 if it returned nothing).
Script(t, s, e, sma, ema, rsi, hit, res, rows) ==
  LET key   == <<t, s, e>>
      entry == cache[key]
      flat  == Flatten(res.ret)
      shown == ShowsChart(flat)
      sum   == IF shown THEN Summarize(flat)
               ELSE [raised |-> FALSE, stats |-> NoStats]
  IN
  /\ ticker' = t /\ start_date' = s /\ end_date' = e
  /\ show_sma' = sma /\ show_ema' = ema /\ show_rsi' = rsi
  /\ clock' = clock
  /\ cache' = IF hit \/ res.raised THEN cache
              ELSE [cache EXCEPT ![key] =
                      [present |-> TRUE, value |-> res.ret, time |-> clock,
                       msgs |-> res.msgs]]
  /\ call' = [made |-> TRUE, had |-> entry.present,
              age |-> IF entry.present THEN clock - entry.time ELSE 0,
              prior_msgs |-> entry.msgs,
              fetched |-> ~hit, rows |-> rows, failed |-> res.failed,
              raised |-> res.raised]
  /\ errors' = res.msgs
  /\ IF res.raised
     THEN df' = df /\ ui' = "exception" /\ stats' = NoStats
     ELSE /\ df' = flat
          /\ stats' = sum.stats
          /\ ui' = IF ~shown THEN "warning"
                   ELSE IF sum.raised THEN "exception" ELSE "chart"

\* A rerun whose load_data call is served from the cache: the stored frame
\* is returned and the stored st.error elements are replayed.
RunCached(t, s, e, sma, ema, rsi) ==
  /\ Hit(t, s, e)
  /\ Script(t, s, e, sma, ema, rsi, TRUE,
            [ret |-> cache[<<t, s, e>>].value, msgs |-> cache[<<t, s, e>>].msgs,
             failed |-> "none", raised |-> FALSE], -1)

\* A rerun whose load_data call runs the body; `out` is what yf.download does.
RunFetch(t, s, e, sma, ema, rsi, out) ==
  /\ ~Hit(t, s, e)
  /\ Script(t, s, e, sma, ema, rsi, FALSE, load_data(out, sma, ema, rsi),
            IF out.kind = "raise" THEN -1 ELSE out.frame.n)

RerunCached ==
  \E t \in Tickers, s \in StartDates, e \in EndDates,
     sma \in BOOLEAN, ema \in BOOLEAN, rsi \in BOOLEAN :
       RunCached(t, s, e, sma, ema, rsi)

RerunFetch ==
  \E t \in Tickers, s \in StartDates, e \in EndDates,
     sma \in BOOLEAN, ema \in BOOLEAN, rsi \in BOOLEAN :
       \E out \in Outcomes(t, FewSeries, {2}) :
          RunFetch(t, s, e, sma, ema, rsi, out)

\* The running dashboard: reruns and time, over a small set of series.
Next == Tick \/ RerunCached \/ RerunFetch

Spec == Init /\ [][Next]_vars

\* The first rerun of a fresh process, over every series of the family.
FirstRun ==
  /\ ~call.made
  /\ \E t \in Tickers, s \in StartDates, e \in EndDates,
        sma \in BOOLEAN, ema \in BOOLEAN, rsi \in BOOLEAN :
          \E out \in Outcomes(t, AllSeries, {1, 2}) :
             RunFetch(t, s, e, sma, ema, rsi, out)

NextCalc == FirstRun

SpecCalc == Init /\ [][NextCalc]_vars

\* =================================================================== claims
CurrentKey == <<ticker, start_date, end_date>>
IndicatorCols == {"SMA_50", "EMA_20", "RSI"}

Column(d, c) ==
  CASE c = "SMA_50" -> d.SMA_50
    [] c = "EMA_20" -> d.EMA_20
    [] OTHER        -> d.RSI

\* The sum of f over rows lo..hi, taken directly.
RECURSIVE SumRange(_, _, _)
SumRange(f, lo, hi) == IF lo > hi THEN 0 ELSE f[hi] + SumRange(f, lo, hi - 1)

\* -------------------------------------------------------------------- C1
\* C1: a load_data call that finds an entry for its key younger than ttl
\* performs no provider download and returns the stored snapshot; a call
\* that finds an entry older than ttl performs a new provider download.
Thm_C1 ==
  call.made =>
    /\ (call.had /\ call.age < TTL) =>
          (~call.fetched /\ df = Flatten(cache[CurrentKey].value))
    /\ (call.had /\ call.age > TTL) => call.fetched

\* A second call for a key, half a ttl after the first, served from the
\* cache with a non-empty snapshot.
Witness_C1 ==
  /\ call.made /\ call.had /\ call.age > 0 /\ call.age < TTL
  /\ ~call.fetched /\ ~IsEmpty(df)

\* -------------------------------------------------------------------- C2
\* C2: a hard provider failure is never served from the cache: a call that
\* finds, for its key, the entry left by a failed call (the one that
\* recorded the st.error element) performs a new provider download.
Cex_C2 == (call.made /\ call.had /\ call.prior_msgs > 0) => call.fetched

\* -------------------------------------------------------------------- C3
\* C3: the non-empty series delivered for a request has column SMA_50 /
\* EMA_20 / RSI if and only if that request's flag is set.
Cex_C3 ==
  (call.made /\ ~call.raised /\ ~IsEmpty(df)) =>
    /\ ("SMA_50" \in df.cols) <=> show_sma
    /\ ("EMA_20" \in df.cols) <=> show_ema
    /\ ("RSI" \in df.cols) <=> show_rsi

\* -------------------------------------------------------------------- C4
\* C4: when the download or the indicator computation inside load_data
\* fails, no exception reaches the caller, the returned series is empty,
\* exactly one error message is emitted and the run ends in the warning
\* branch.
Thm_C4 ==
  (call.made /\ call.failed # "none") =>
    /\ ~call.raised
    /\ IsEmpty(df)
    /\ errors = 1
    /\ ui = "warning"

\* A call whose indicator computation failed on a frame without Close,
\* ending in the warning branch with one message.
Witness_C4 ==
  /\ call.made /\ call.failed = "indicator"
  /\ ui = "warning" /\ errors = 1 /\ IsEmpty(df)

\* -------------------------------------------------------------------- C5
\* C5: the series handed to the presentation stage has no undefined value
\* in any column, and SMA_50 alone on a 100-row series leaves 51 rows.
NoUndefined(d) ==
  \A c \in d.cols \cap IndicatorCols :
    \A i \in 1..Len(Column(d, c)) : ~IsNaN(Column(d, c)[i])

Cex_C5 ==
  ui = "chart" =>
    /\ NoUndefined(df)
    /\ (show_sma /\ ~show_ema /\ ~show_rsi /\ call.rows = 100) => df.n = 51

\* -------------------------------------------------------------------- C6
\* C6: at every row past the RSI warm-up whose window holds no loss, the
\* RSI is exactly 100 (never NaN, never infinite).
IsHundred(v) == v.k = "num" /\ v.n = 100 * v.d

Cex_C6 ==
  (ui = "chart" /\ "RSI" \in df.cols) =>
    \A i \in RSI_PERIOD..df.n :
      SumRange(Loss(df.Close), i - RSI_PERIOD + 1, i) = 0 => IsHundred(df.RSI[i])

\* -------------------------------------------------------------------- C7
\* C7: for a non-empty series the percentage change is
\* (latest - prior) / prior * 100 when there are at least 2 rows and prior
\* is not 0, it is 0 when prior is 0 or there is one row, and no division
\* by zero is attempted.
Thm_C7 ==
  (call.made /\ ~call.raised /\ ~IsEmpty(df) /\ "Close" \in df.cols) =>
    LET latest == df.Close[df.n]
        prior  == IF df.n >= 2 THEN df.Close[df.n - 1] ELSE 0
    IN  /\ ui = "chart"
        /\ stats.computed
        /\ stats.latest_close = latest
        /\ (df.n >= 2 /\ prior # 0) =>
              stats.change = Num((latest - prior) * 100, prior)
        /\ (df.n < 2 \/ prior = 0) =>
              (stats.change.k = "num" /\ stats.change.n = 0)

\* The one-row series whose only close is 0, shown with its statistics.
Witness_C7 ==
  /\ ui = "chart" /\ df.n = 1 /\ df.Close[1] = 0
  /\ stats.computed /\ stats.change.n = 0

\* -------------------------------------------------------------------- C8
\* C8: when the fetched series is empty the run completes without error:
\* no indicator column, an empty frame, no statistics, the warning state.
Thm_C8 ==
  (call.made /\ call.fetched /\ call.rows = 0) =>
    /\ call.failed = "none" /\ ~call.raised /\ errors = 0
    /\ df = EmptyFrame
    /\ ~stats.computed
    /\ ui = "warning"

\* An empty download with all three indicators requested.
Witness_C8 ==
  /\ call.made /\ call.fetched /\ call.rows = 0
  /\ show_sma /\ show_ema /\ show_rsi
  /\ ui = "warning"

\* -------------------------------------------------------------------- C9
\* C9: with SMA enabled the SMA_50 column has one entry per row, undefined
\* at each of the first 49 rows and equal to the mean of Close over rows
\* i-49..i from row 50 on.
Thm_C9 ==
  (call.made /\ "SMA_50" \in df.cols) =>
    /\ df.n = call.rows /\ Len(df.Close) = df.n /\ Len(df.SMA_50) = df.n
    /\ \A i \in 1..df.n :
         IF i < SMA_WINDOW THEN IsNaN(df.SMA_50[i])
         ELSE df.SMA_50[i] =
                Num(SumRange(df.Close, i - SMA_WINDOW + 1, i), SMA_WINDOW)

\* A series longer than the window, whose last SMA value is defined.
Witness_C9 ==
  /\ call.made /\ "SMA_50" \in df.cols
  /\ df.n > SMA_WINDOW /\ ~IsNaN(df.SMA_50[df.n])

\* ------------------------------------------------------------------- C10
\* The reference: y[1] = x[1], y[t] = (x[t] + (period - 1) y[t-1]) / period,
\* undefined before `period` observations; in WilderScale units.
RECURSIVE WilderAcc(_, _, _)
WilderAcc(x, period, acc) ==
  IF Len(acc.out) >= Len(x) THEN acc.out
  ELSE LET i == Len(acc.out) + 1
           y == IF i = 1 THEN x[1] * WilderScale
                ELSE (x[i] * WilderScale + (period - 1) * acc.prev) \div period
           v == IF i >= period THEN Num(y, WilderScale) ELSE NaN
       IN  WilderAcc(x, period, [prev |-> y, out |-> Append(acc.out, v)])

WilderRsi(x) ==
  LET gain == WilderAcc(Gain(x), RSI_PERIOD, [prev |-> 0, out |-> << >>])
      loss == WilderAcc(Loss(x), RSI_PERIOD, [prev |-> 0, out |-> << >>])
  IN  [i \in 1..Len(x) |->
         IF gain[i].k = "nan" \/ loss[i].k = "nan" THEN NaN
         ELSE IF loss[i].n = 0 THEN RsiOf(IF gain[i].n = 0 THEN NaN ELSE Inf)
         ELSE RsiOf(Num(gain[i].n, loss[i].n))]

\* Two RSI cells agree: both undefined, or both numbers whose integer parts
\* differ by at most Tolerance points.
Agree(a, b) ==
  /\ a.k = b.k
  /\ a.k = "num" =>
       LET pa == a.n \div a.d
           pb == b.n \div b.d
       IN  pa - pb <= Tolerance /\ pb - pa <= Tolerance

\* C10: the RSI column equals, at every row, the RSI of the Wilder averages
\* of gain and loss.
Cex_C10 ==
  (ui = "chart" /\ "RSI" \in df.cols) =>
    \A i \in 1..df.n : Agree(df.RSI[i], WilderRsi(df.Close)[i])

====
